---- MODULE Spec2Model ----
(***************************************************************************)
(* ls-override: a wrapper that runs `ls`, recolors hidden entries and      *)
(* lays the entries out in a column grid sized to the terminal.            *)
(*                                                                         *)
(* The model follows main() of src/main.go statement by statement; the     *)
(* earlier revision of the same file, src/unnamed/part_000, shares the     *)
(* pipeline and the recoloring and differs in the layout (row-major, one   *)
(* common column count).  `variant` selects which of the two runs.         *)
(*                                                                         *)
(* A string is a sequence of one-character strings; ESC stands for the     *)
(* byte 0x1b.                                                              *)
(***************************************************************************)
EXTENDS Integers, Sequences, FiniteSets, TLC

VARIABLES
    variant,    \* "main" (src/main.go) or "old" (src/unnamed/part_000)
    pc,         \* position in main()
    listing,    \* what ls emitted: sequence of [line, isDir], isDir the entry's type in the listed directory
    files,      \* main: files []string
    lsWaited,   \* cmd.Wait() has returned
    lsStatus,   \* the exit status of ls that cmd.Wait() observed
    i,          \* index of the recoloring loop (and of part_000's print loop)
    stat,       \* what os.Stat answered for the entry just recolored, "none" when it was not called
    termWidth,  \* main: termWidth
    tryCols,    \* main: tryCols of the search loop
    bestCols,   \* main: bestCols
    numCols,    \* part_000: numCols
    row,        \* main: row of the print loop
    out,        \* standard output: the lines printed so far
    outCells,   \* per printed line, the entry indices written into it, in order
    exitCode    \* the program's exit status, meaningful when pc = "exit"

vars == <<variant, pc, listing, files, lsWaited, lsStatus, i, stat, termWidth,
          tryCols, bestCols, numCols, row, out, outCells, exitCode>>

----------------------------------------------------------------------------
(* Bounds of the model *)

\* Pipeline specification: at most this many lines are read from ls.
MaxFiles == 3
\* Layout specification: at most this many entries are laid out.
MaxLayoutFiles == 5
\* Largest terminal width term.GetSize reports.
MaxWidth == 12

----------------------------------------------------------------------------
(* Program constants *)

padding == 2
FallbackWidth == 80
ExitFailure == 1
ExitSuccess == 0

ESC == "ESC"
SP == " "

\* colors["gray"], colors["fadedcyan"]
Gray == <<ESC, "[", "9", "0", "m">>
FadedCyan == <<ESC, "[", "3", "8", ";", "2", ";", "7", "0", ";", "1", "5", "0", ";", "1", "5", "0", "m">>
\* nameColors
DotDirColor == FadedCyan
DotFileColor == Gray
\* "\033[0m"
Reset == <<ESC, "[", "0", "m">>

----------------------------------------------------------------------------
(* stripANSI: ansiRegex.ReplaceAllString(s, "") with ansiRegex             *)
(* \x1b\[[0-9;]*m.  Leftmost, non-overlapping matches are removed in one   *)
(* pass.  The class [0-9;] does not contain 'm', so a match at a position  *)
(* is decided without backtracking.                                        *)

IsParam(c) == c \in {"0", "1", "2", "3", "4", "5", "6", "7", "8", "9", ";"}

RECURSIVE SkipParams(_, _)
\* the first position >= k of s that holds no [0-9;]
SkipParams(s, k) ==
    IF k <= Len(s) /\ IsParam(s[k]) THEN SkipParams(s, k + 1) ELSE k

\* the position after the match that starts at k, or 0 when none starts there
MatchEnd(s, k) ==
    IF k + 1 <= Len(s) /\ s[k] = ESC /\ s[k + 1] = "["
    THEN LET j == SkipParams(s, k + 2)
         IN  IF j <= Len(s) /\ s[j] = "m" THEN j + 1 ELSE 0
    ELSE 0

RECURSIVE StripFrom(_, _)
StripFrom(s, k) ==
    IF k > Len(s) THEN <<>>
    ELSE LET e == MatchEnd(s, k)
         IN  IF e > 0 THEN StripFrom(s, e)
             ELSE <<s[k]>> \o StripFrom(s, k + 1)

stripANSI(s) == StripFrom(s, 1)

\* strings.HasPrefix(s, ".")
HasDotPrefix(s) == Len(s) >= 1 /\ s[1] = "."

\* strings.Contains(f, "\x1b[")
ContainsIntroducer(f) ==
    \E k \in 1..(Len(f) - 1) : f[k] = ESC /\ f[k + 1] = "["

\* len(stripANSI(f))
displayLen(f) == Len(stripANSI(f))

----------------------------------------------------------------------------
(* The recoloring of one entry: the body of the loop `for i, f := range    *)
(* files`.  st is what os.Stat(nameStripped) answers: "dir" (err == nil    *)
(* and info.IsDir()), "file" (err == nil, not a directory) or "err".       *)

StatResults == {"dir", "file", "err"}

RecolorEntry(f, st) ==
    LET nameStripped == stripANSI(f)
    IN  IF HasDotPrefix(nameStripped)
        THEN IF st = "dir"
             THEN DotDirColor \o nameStripped \o Reset
             ELSE IF ~ContainsIntroducer(f)
                  THEN DotFileColor \o nameStripped \o Reset
                  ELSE f
        ELSE f

----------------------------------------------------------------------------
(* The lines ls can emit, each with the entry's type in the directory ls   *)
(* lists.  ls --color=always wraps the names it colors in control codes    *)
(* and prints every other name as it is on disk, control bytes included.   *)

\* a regular file, not colored
PlainFile == [line |-> <<"a">>, isDir |-> FALSE]
\* a hidden regular file, not colored
HiddenPlain == [line |-> <<".", "b">>, isDir |-> FALSE]
\* a hidden directory, colored by ls (and marked by -F)
HiddenColoredDir ==
    [line |-> <<ESC, "[", "0", "m", ESC, "[", "0", "1", ";", "3", "4", "m",
                ".", "d", ESC, "[", "0", "m", "/">>,
     isDir |-> TRUE]
\* a hidden regular file that ls colors (by its extension)
HiddenColoredFile ==
    [line |-> <<ESC, "[", "0", "1", ";", "3", "1", "m", ".", "z", ESC, "[", "0", "m">>,
     isDir |-> FALSE]
\* a hidden regular file whose name holds the bytes ESC [ ESC [ m m
HiddenNested ==
    [line |-> <<".", ESC, "[", ESC, "[", "m", "m">>, isDir |-> FALSE]

LsEntries == {PlainFile, HiddenPlain, HiddenColoredDir, HiddenColoredFile, HiddenNested}

\* the non-zero exit statuses of ls: 1 (minor problems), 2 (serious trouble)
LsFailStatuses == {1, 2}

Variants == {"main", "old"}

----------------------------------------------------------------------------
(* main(): from the start of ls to the end of the recoloring loop.  The    *)
(* two revisions agree on this part.                                       *)

Exit(code) ==
    /\ pc' = "exit"
    /\ exitCode' = code

Init ==
    /\ variant \in Variants
    /\ pc = "pipe"
    /\ listing = <<>>
    /\ files = <<>>
    /\ lsWaited = FALSE
    /\ lsStatus = 0
    /\ i = 0
    /\ stat = "none"
    /\ termWidth = 0
    /\ tryCols = 0
    /\ bestCols = 0
    /\ numCols = 0
    /\ row = 0
    /\ out = <<>>
    /\ outCells = <<>>
    /\ exitCode = 0

\* stdout, err := cmd.StdoutPipe()
StdoutPipe ==
    /\ pc = "pipe"
    /\ \E ok \in BOOLEAN :
          IF ok THEN pc' = "start" /\ UNCHANGED exitCode
                ELSE Exit(ExitFailure)
    /\ UNCHANGED <<variant, stat, listing, files, lsWaited, lsStatus, i, termWidth,
                   tryCols, bestCols, numCols, row, out, outCells>>

\* cmd.Start()
Start ==
    /\ pc = "start"
    /\ \E ok \in BOOLEAN :
          IF ok THEN pc' = "scan" /\ UNCHANGED exitCode
                ELSE Exit(ExitFailure)
    /\ UNCHANGED <<variant, stat, listing, files, lsWaited, lsStatus, i, termWidth,
                   tryCols, bestCols, numCols, row, out, outCells>>

\* one iteration of `for scanner.Scan()`: the next line of ls is appended
Scan ==
    /\ pc = "scan"
    /\ Len(files) < MaxFiles
    /\ \E e \in LsEntries :
          /\ listing' = Append(listing, e)
          /\ files' = Append(files, e.line)
    /\ UNCHANGED <<variant, stat, pc, lsWaited, lsStatus, i, termWidth, tryCols,
                   bestCols, numCols, row, out, outCells, exitCode>>

\* scanner.Scan() returns false; scanner.Err() is checked
ScanEnd ==
    /\ pc = "scan"
    /\ \E ok \in BOOLEAN :
          IF ok THEN pc' = "wait" /\ UNCHANGED exitCode
                ELSE Exit(ExitFailure)
    /\ UNCHANGED <<variant, stat, listing, files, lsWaited, lsStatus, i, termWidth,
                   tryCols, bestCols, numCols, row, out, outCells>>

\* Wait with the error of cmd.Wait() ignored
WaitIgnoringStatus ==
    /\ pc = "wait"
    /\ \E s \in {0} \cup LsFailStatuses :
          /\ lsWaited' = TRUE
          /\ lsStatus' = s
    /\ pc' = "recolor"
    /\ i' = 0
    /\ UNCHANGED <<variant, stat, listing, files, termWidth, tryCols, bestCols,
                   numCols, row, out, outCells, exitCode>>

\* cmd.Wait(): ls has exited with status s
Wait ==
    /\ pc = "wait"
    /\ \E s \in {0} \cup LsFailStatuses :
          /\ lsWaited' = TRUE
          /\ lsStatus' = s
          /\ IF s # 0 THEN Exit(ExitFailure) /\ UNCHANGED i
                      ELSE pc' = "recolor" /\ i' = 0 /\ UNCHANGED exitCode
    /\ UNCHANGED <<variant, stat, listing, files, termWidth, tryCols, bestCols,
                   numCols, row, out, outCells>>

\* one iteration of the recoloring loop; os.Stat is called for a hidden name
Recolor ==
    /\ pc = "recolor"
    /\ i < Len(files)
    /\ IF HasDotPrefix(stripANSI(files[i + 1]))
       THEN \E st \in StatResults :
               /\ stat' = st
               /\ files' = [files EXCEPT ![i + 1] = RecolorEntry(files[i + 1], st)]
       ELSE /\ stat' = "none"
            /\ UNCHANGED files
    /\ i' = i + 1
    /\ UNCHANGED <<variant, pc, listing, lsWaited, lsStatus, termWidth, tryCols,
                   bestCols, numCols, row, out, outCells, exitCode>>

\* the recoloring loop ends
RecolorEnd ==
    /\ pc = "recolor"
    /\ i >= Len(files)
    /\ pc' = "width"
    /\ stat' = "none"
    /\ UNCHANGED <<variant, listing, files, lsWaited, lsStatus, i, termWidth,
                   tryCols, bestCols, numCols, row, out, outCells, exitCode>>

----------------------------------------------------------------------------
(* Terminal width: getTerminalWidth() and its fallback.                    *)

\* getTerminalWidth(): term.GetSize answers (w, err); an error or w < 1 is an error
GetTerminalWidthOk(ok, w) == ok /\ w >= 1

\* termWidth after `termWidth, err := getTerminalWidth(); if err != nil {...}`
TermWidthOf(ok, w) == IF GetTerminalWidthOk(ok, w) THEN w ELSE FallbackWidth

\* GetTerminalWidth with the error of getTerminalWidth() made fatal
GetTerminalWidthFatal ==
    /\ pc = "width"
    /\ \E ok \in BOOLEAN, w \in 0..MaxWidth :
          IF GetTerminalWidthOk(ok, w)
          THEN /\ termWidth' = w
               /\ pc' = IF variant = "main" THEN "empty" ELSE "oldcols"
               /\ UNCHANGED exitCode
          ELSE /\ termWidth' = FallbackWidth
               /\ Exit(ExitFailure)
    /\ UNCHANGED <<variant, stat, listing, files, lsWaited, lsStatus, i, tryCols,
                   bestCols, numCols, row, out, outCells>>

GetTerminalWidth ==
    /\ pc = "width"
    /\ \E ok \in BOOLEAN, w \in 0..MaxWidth : termWidth' = TermWidthOf(ok, w)
    /\ pc' = IF variant = "main" THEN "empty" ELSE "oldcols"
    /\ UNCHANGED <<variant, stat, listing, files, lsWaited, lsStatus, i, tryCols,
                   bestCols, numCols, row, out, outCells, exitCode>>

----------------------------------------------------------------------------
(* src/main.go: the column search and the column-major print.  Loop        *)
(* variables count from 0 as in the code; files[index] is fs[index + 1].   *)

\* maxPossibleCols
MaxPossibleCols(n, w) ==
    LET m == IF n > w THEN w ELSE n
    IN  IF m < 1 THEN 1 ELSE m

\* Rows rounding down: len(files) / cols
RowsFloor(n, cols) == n \div cols

\* rows := (len(files) + cols - 1) / cols
Rows(n, cols) == (n + cols - 1) \div cols

RECURSIVE ColMaxFromRawLen(_, _, _, _, _)
\* ColMaxFrom measuring len(files[index]), control codes included
ColMaxFromRawLen(fs, rows, col, r, maxW) ==
    IF r >= rows THEN maxW
    ELSE LET index == col * rows + r
         IN  IF index >= Len(fs) THEN maxW
             ELSE LET d == Len(fs[index + 1])
                  IN  ColMaxFromRawLen(fs, rows, col, r + 1, IF d > maxW THEN d ELSE maxW)

RECURSIVE ColMaxFrom(_, _, _, _, _)
\* the inner loop `for row := 0; row < rows; row++` from `r` on, maxW so far
ColMaxFrom(fs, rows, col, r, maxW) ==
    IF r >= rows THEN maxW
    ELSE LET index == col * rows + r
         IN  IF index >= Len(fs) THEN maxW
             ELSE LET d == displayLen(fs[index + 1])
                  IN  ColMaxFrom(fs, rows, col, r + 1, IF d > maxW THEN d ELSE maxW)

\* colWidths[col] for a layout of `cols` columns
ColWidth(fs, cols, col) == ColMaxFrom(fs, Rows(Len(fs), cols), col, 0, 0)

\* colWidths
ColWidths(fs, cols) == [c \in 1..cols |-> ColWidth(fs, cols, c - 1)]

RECURSIVE SumWidthsFrom(_, _, _)
\* `for i, w := range colWidths` from index k on
SumWidthsFrom(ws, cols, k) ==
    IF k >= cols THEN 0
    ELSE ws[k + 1] + (IF k < cols - 1 THEN padding ELSE 0)
         + SumWidthsFrom(ws, cols, k + 1)

RECURSIVE SumWidthsPadAll(_, _, _)
SumWidthsPadAll(ws, cols, k) ==
    IF k >= cols THEN 0
    ELSE ws[k + 1] + padding + SumWidthsPadAll(ws, cols, k + 1)

\* TotalWidth with the padding added after every column, the last included
TotalWidthPadAll(fs, cols) == SumWidthsPadAll(ColWidths(fs, cols), cols, 0)

\* totalWidth of the layout with `cols` columns
TotalWidth(fs, cols) == SumWidthsFrom(ColWidths(fs, cols), cols, 0)

\* strings.Repeat(" ", n)
Repeat(n) == [k \in 1..n |-> SP]

\* spaces written after an entry of a non-final column
Spaces(colWidth, dLen) ==
    LET spaces == colWidth - dLen + padding
    IN  IF spaces < 1 THEN 1 ELSE spaces

RECURSIVE RowCellsFrom(_, _, _, _, _)
\* the indices the loop `for col := 0; col < bestCols; col++` writes, from col on
RowCellsFrom(n, cols, rows, r, col) ==
    IF col >= cols THEN <<>>
    ELSE LET index == col * rows + r
         IN  IF index >= n THEN <<>>
             ELSE <<index>> \o RowCellsFrom(n, cols, rows, r, col + 1)

RowCells(fs, cols, r) == RowCellsFrom(Len(fs), cols, Rows(Len(fs), cols), r, 0)

RECURSIVE RowLineFrom(_, _, _, _, _)
\* buffer after the loop over col, from col on
RowLineFrom(fs, cols, ws, r, col) ==
    IF col >= cols THEN <<>>
    ELSE LET index == col * Rows(Len(fs), cols) + r
         IN  IF index >= Len(fs) THEN <<>>
             ELSE LET f == fs[index + 1]
                  IN  f \o (IF col < cols - 1
                            THEN Repeat(Spaces(ws[col + 1], displayLen(f)))
                            ELSE <<>>)
                        \o RowLineFrom(fs, cols, ws, r, col + 1)

\* the line printed for row r
RowLine(fs, cols, r) == RowLineFrom(fs, cols, ColWidths(fs, cols), r, 0)

\* `if len(files) == 0 { return }`, then the set-up of the search
CheckEmpty ==
    /\ pc = "empty"
    /\ IF Len(files) = 0
       THEN Exit(ExitSuccess) /\ UNCHANGED <<tryCols, bestCols>>
       ELSE /\ pc' = "search"
            /\ tryCols' = MaxPossibleCols(Len(files), termWidth)
            /\ bestCols' = 1
            /\ UNCHANGED exitCode
    /\ UNCHANGED <<variant, stat, listing, files, lsWaited, lsStatus, i, termWidth,
                   numCols, row, out, outCells>>

\* one iteration of `for tryCols := maxPossibleCols; tryCols > 0; tryCols--`
TryCols ==
    /\ pc = "search"
    /\ tryCols > 0
    /\ IF TotalWidth(files, tryCols) <= termWidth
       THEN /\ bestCols' = tryCols
            /\ pc' = "print"
            /\ row' = 0
            /\ UNCHANGED tryCols
       ELSE /\ tryCols' = tryCols - 1
            /\ UNCHANGED <<bestCols, pc, row>>
    /\ UNCHANGED <<variant, stat, listing, files, lsWaited, lsStatus, i, termWidth,
                   numCols, out, outCells, exitCode>>

\* the search loop ends with no candidate accepted
SearchEnd ==
    /\ pc = "search"
    /\ tryCols <= 0
    /\ pc' = "print"
    /\ row' = 0
    /\ UNCHANGED <<variant, stat, listing, files, lsWaited, lsStatus, i, termWidth,
                   tryCols, bestCols, numCols, out, outCells, exitCode>>

\* one iteration of `for row := 0; row < rows; row++`: one line is printed
PrintRow ==
    /\ pc = "print"
    /\ row < Rows(Len(files), bestCols)
    /\ out' = Append(out, RowLine(files, bestCols, row))
    /\ outCells' = Append(outCells, RowCells(files, bestCols, row))
    /\ row' = row + 1
    /\ UNCHANGED <<variant, stat, pc, listing, files, lsWaited, lsStatus, i,
                   termWidth, tryCols, bestCols, numCols, exitCode>>

\* PrintEnd leaving the loop one row early: row < rows - 1
PrintEndOneRowEarly ==
    /\ pc = "print"
    /\ row >= Rows(Len(files), bestCols) - 1
    /\ Exit(ExitSuccess)
    /\ UNCHANGED <<variant, stat, listing, files, lsWaited, lsStatus, i, termWidth,
                   tryCols, bestCols, numCols, row, out, outCells>>

\* the print loop ends and main returns
PrintEnd ==
    /\ pc = "print"
    /\ row >= Rows(Len(files), bestCols)
    /\ Exit(ExitSuccess)
    /\ UNCHANGED <<variant, stat, listing, files, lsWaited, lsStatus, i, termWidth,
                   tryCols, bestCols, numCols, row, out, outCells>>

----------------------------------------------------------------------------
(* src/unnamed/part_000: one column count from the widest entry, entries   *)
(* laid out row by row.                                                    *)

RECURSIVE OldMaxLenFrom(_, _, _)
\* colWidth after `for _, f := range files`, from index k on
OldMaxLenFrom(fs, k, colWidth) ==
    IF k >= Len(fs) THEN colWidth
    ELSE LET d == displayLen(fs[k + 1])
         IN  OldMaxLenFrom(fs, k + 1, IF d > colWidth THEN d ELSE colWidth)

\* numCols
OldNumCols(fs, w) ==
    LET colWidth == OldMaxLenFrom(fs, 0, 0)
    IN  IF colWidth > 0
        THEN LET n == w \div (colWidth + padding)
             IN  IF n < 1 THEN 1 ELSE n
        ELSE 1

RECURSIVE OldColMaxFrom(_, _, _, _, _)
\* colWidths[col] after `for i := 0; i < len(files); i++`, from index k on
OldColMaxFrom(fs, n, col, k, maxW) ==
    IF k >= Len(fs) THEN maxW
    ELSE LET d == displayLen(fs[k + 1])
         IN  OldColMaxFrom(fs, n, col, k + 1,
                           IF k % n = col /\ d > maxW THEN d ELSE maxW)

OldColWidths(fs, n) == [c \in 1..n |-> OldColMaxFrom(fs, n, c - 1, 0, 0)]

\* end of the row that starts at index k
OldRowEnd(fs, n, k) == IF k + n > Len(fs) THEN Len(fs) ELSE k + n

RECURSIVE OldRowLineFrom(_, _, _, _, _)
\* buffer after `for j, f := range rowFiles`, from j on
OldRowLineFrom(fs, ws, k, end, j) ==
    IF k + j >= end THEN <<>>
    ELSE LET f == fs[k + j + 1]
         IN  f \o (IF j < (end - k) - 1
                   THEN Repeat(Spaces(ws[j + 1], displayLen(f)))
                   ELSE <<>>)
               \o OldRowLineFrom(fs, ws, k, end, j + 1)

OldRowLine(fs, n, k) ==
    OldRowLineFrom(fs, OldColWidths(fs, n), k, OldRowEnd(fs, n, k), 0)

\* numCols is computed
OldCols ==
    /\ pc = "oldcols"
    /\ numCols' = OldNumCols(files, termWidth)
    /\ i' = 0
    /\ pc' = "oldprint"
    /\ UNCHANGED <<variant, stat, listing, files, lsWaited, lsStatus, termWidth,
                   tryCols, bestCols, row, out, outCells, exitCode>>

\* one iteration of `for i := 0; i < len(files); i += numCols`
OldPrintRow ==
    /\ pc = "oldprint"
    /\ i < Len(files)
    /\ out' = Append(out, OldRowLine(files, numCols, i))
    /\ outCells' = Append(outCells,
                          [j \in 1..(OldRowEnd(files, numCols, i) - i) |-> i + j - 1])
    /\ i' = i + numCols
    /\ UNCHANGED <<variant, stat, pc, listing, files, lsWaited, lsStatus, termWidth,
                   tryCols, bestCols, numCols, row, exitCode>>

\* the print loop ends and main returns
OldPrintEnd ==
    /\ pc = "oldprint"
    /\ i >= Len(files)
    /\ Exit(ExitSuccess)
    /\ UNCHANGED <<variant, stat, listing, files, lsWaited, lsStatus, i, termWidth,
                   tryCols, bestCols, numCols, row, out, outCells>>

----------------------------------------------------------------------------
(* Specifications *)

Pipeline ==
    \/ StdoutPipe
    \/ Start
    \/ Scan
    \/ ScanEnd
    \/ Wait
    \/ Recolor
    \/ RecolorEnd

Layout ==
    \/ GetTerminalWidth
    \/ CheckEmpty
    \/ TryCols
    \/ SearchEnd
    \/ PrintRow
    \/ PrintEnd

OldLayout ==
    \/ OldCols
    \/ OldPrintRow
    \/ OldPrintEnd

Next == Pipeline \/ Layout \/ OldLayout

\* the whole program, either revision
Spec == Init /\ [][Next]_vars

\* a regular file with a longer name, not colored
LongFile == [line |-> <<"b", "b", "b", "b", "b">>, isDir |-> FALSE]

\* the entries of the layout specification: visible lengths 1, 5 and 2, the
\* last one recolored (and so longer in bytes than it is wide)
LayoutLsEntries == {PlainFile, LongFile, HiddenPlain}

RECURSIVE SeqsUpTo(_, _)
\* the sequences over S of length at most n
SeqsUpTo(S, n) ==
    IF n = 0 THEN {<<>>}
    ELSE LET shorter == SeqsUpTo(S, n - 1)
         IN  shorter \cup {Append(q, x) : q \in shorter, x \in S}

\* src/main.go after the recoloring loop, for every list of entries (os.Stat
\* agreeing with the listing on each)
InitLayout ==
    /\ variant = "main"
    /\ pc = "width"
    /\ listing \in SeqsUpTo(LayoutLsEntries, MaxLayoutFiles)
    /\ files = [k \in 1..Len(listing) |->
                   RecolorEntry(listing[k].line,
                                IF listing[k].isDir THEN "dir" ELSE "file")]
    /\ lsWaited = TRUE
    /\ lsStatus = 0
    /\ i = Len(listing)
    /\ stat = "none"
    /\ termWidth = 0
    /\ tryCols = 0
    /\ bestCols = 0
    /\ numCols = 0
    /\ row = 0
    /\ out = <<>>
    /\ outCells = <<>>
    /\ exitCode = 0

SpecLayout == InitLayout /\ [][Layout]_vars

----------------------------------------------------------------------------
(* Properties of the layout of src/main.go, stated from the description of *)
(* the layout and not from the loops above.                                *)

N == Len(files)

SetMax(S) == CHOOSE x \in S : \A y \in S : y <= x

MinOf(a, b) == IF a < b THEN a ELSE b

\* the visible length of every entry
VisibleLens == [k \in 1..N |-> displayLen(files[k])]

\* ceiling(N / c)
CeilRows(c) == CHOOSE r \in 0..N : r * c >= N /\ (r = 0 \/ (r - 1) * c < N)

\* the entries (0-based) of column col in a column-major layout of `rows` rows
ColumnEntries(rows, col) ==
    {col * rows + rw : rw \in 0..(rows - 1)} \cap 0..(N - 1)

\* the maximum of the visible lengths `vis` in column col, 0 for an empty column
ColumnWidth(vis, rows, col) ==
    SetMax({vis[k + 1] : k \in ColumnEntries(rows, col)} \cup {0})

RECURSIVE SumColumns(_, _, _)
\* the sum of the widths of the columns 0..(k - 1)
SumColumns(vis, rows, k) ==
    IF k = 0 THEN 0
    ELSE ColumnWidth(vis, rows, k - 1) + SumColumns(vis, rows, k - 1)

\* sum of per-column maximum visible lengths plus padding * (c - 1)
LayoutWidth(vis, c) == SumColumns(vis, CeilRows(c), c) + padding * (c - 1)

\* the candidates of the search that fit the terminal
FittingCandidates ==
    LET vis == VisibleLens
    IN  {c \in 1..MinOf(N, termWidth) : LayoutWidth(vis, c) <= termWidth}

\* the search loop of main has just ended
SearchEnded == pc = "print" /\ row = 0

\* the search loop of main is about to try its first candidate
SearchStarts == pc = "search" /\ tryCols = MaxPossibleCols(N, termWidth)

CellsOfLine(r) == {<<r, c>> : c \in 1..Len(outCells[r])}

AllCells == UNION {CellsOfLine(r) : r \in 1..Len(outCells)}

RECURSIVE ConcatEntries(_)
\* the entries with the given indices, one after the other
ConcatEntries(cells) ==
    IF cells = <<>> THEN <<>>
    ELSE files[Head(cells) + 1] \o ConcatEntries(Tail(cells))

\* a line without its spaces
WithoutSpaces(line) == SelectSeq(line, LAMBDA ch : ch # SP)

\* C2: every printed line `row` holds, at position `col`, entry
\* col * rows + row, for exactly the columns whose index is below N; when
\* main returns, every entry index 0..N-1 has been written exactly once.
C2_ColumnMajorExactlyOnce ==
    (variant = "main" /\ pc \in {"print", "exit"} /\ N >= 1 /\ lsStatus = 0 /\ lsWaited) =>
        LET rows == CeilRows(bestCols)
        IN  /\ Len(out) = Len(outCells)
            /\ \A r \in 1..Len(outCells) :
                  /\ Len(outCells[r]) =
                        Cardinality({col \in 0..(bestCols - 1) : col * rows + (r - 1) < N})
                  /\ \A c \in 1..Len(outCells[r]) :
                        outCells[r][c] = (c - 1) * rows + (r - 1)
                  /\ WithoutSpaces(out[r]) = ConcatEntries(outCells[r])
            /\ pc = "exit" =>
                  /\ Len(out) = rows
                  /\ \A k \in 0..(N - 1) :
                        Cardinality({rc \in AllCells : outCells[rc[1]][rc[2]] = k}) = 1

\* C2 witness: main has returned after printing 4 entries in 3 columns of 2
\* rows, the last column empty.
C2_Witness ==
    /\ variant = "main"
    /\ pc = "exit"
    /\ N = 4
    /\ bestCols = 3
    /\ Len(out) = 2

\* the layout width main computes for every column count 1..N
TotalWidths == [c \in 1..N |-> TotalWidth(files, c)]

\* C9 as stated: the layout width never decreases when the column count
\* grows.
C9_MonotonicInColumns ==
    SearchStarts =>
        LET tw == TotalWidths
        IN  \A c1 \in 1..N : \A c2 \in c1..N : tw[c1] <= tw[c2]

\* C9 amended: the layout width of every column count lies between that of
\* one column and that of N columns.
C9_BoundedByExtremes ==
    SearchStarts =>
        LET tw == TotalWidths
        IN  \A c \in 1..N : tw[1] <= tw[c] /\ tw[c] <= tw[N]

\* C9 witness: the search accepted 3 columns although 2 columns do not fit.
C9_Witness ==
    /\ pc = "print"
    /\ bestCols = 3
    /\ TotalWidth(files, 2) > termWidth
    /\ TotalWidth(files, 3) <= termWidth

\* the columns of row r (0-based) that hold an entry
ColumnsOfRow(rows, r) == {col \in 0..(bestCols - 1) : col * rows + r < N}

RECURSIVE ExpectedLineFrom(_, _, _, _)
\* row r from column col on: each entry, followed in a non-final column by
\* colWidth - visibleLen + padding spaces
ExpectedLineFrom(vis, rows, r, col) ==
    IF col \notin ColumnsOfRow(rows, r) THEN <<>>
    ELSE LET k == col * rows + r + 1
         IN  files[k]
               \o (IF col < bestCols - 1
                   THEN Repeat(ColumnWidth(vis, rows, col) - vis[k] + padding)
                   ELSE <<>>)
               \o ExpectedLineFrom(vis, rows, r, col + 1)

\* C10: every printed line is its entries, each followed in a non-final
\* column by exactly colWidth - visibleLen + 2 spaces, which is at least 2;
\* and when no entry is wider than the terminal, no line is.
C10_LinesFitAndPadAtLeastTwo ==
    (variant = "main" /\ pc \in {"print", "exit"} /\ N >= 1 /\ lsStatus = 0 /\ lsWaited) =>
        LET vis == VisibleLens
            rows == CeilRows(bestCols)
        IN  \A r \in 1..Len(out) :
                /\ out[r] = ExpectedLineFrom(vis, rows, r - 1, 0)
                /\ \A col \in ColumnsOfRow(rows, r - 1) :
                      col < bestCols - 1 =>
                          ColumnWidth(vis, rows, col) - vis[col * rows + r] + padding >= 2
                /\ (\A k \in 1..N : vis[k] <= termWidth) =>
                      displayLen(out[r]) <= termWidth

\* C10 witness: a printed line ends in the spaces written after an entry
\* whose next column has no entry in that row, and holds a colored entry, so
\* that it is longer in bytes than the terminal is wide.
C10_Witness ==
    /\ variant = "main"
    /\ pc = "exit"
    /\ N >= 1
    /\ \A k \in 1..N : displayLen(files[k]) <= termWidth
    /\ \E r \in 1..Len(out) :
          /\ out[r][Len(out[r])] = SP
          /\ Len(out[r]) > termWidth

----------------------------------------------------------------------------
(* Properties of the pipeline and of the recoloring.                       *)

\* entry k (1-based) has been through the recoloring loop
Recolored(k) == lsWaited /\ lsStatus = 0 /\ (pc = "recolor" => k <= i)

\* the visible name of entry k as ls emitted it
VisibleName(k) == stripANSI(listing[k].line)

\* entry k is a hidden entry
Hidden(k) == HasDotPrefix(VisibleName(k))

\* C3 as stated: recoloring keeps the number and order of the entries and
\* the visible text of each: stripping the control codes of an entry gives
\* the same string after the recoloring as before.
C3_VisibleTextKept ==
    /\ Len(files) = Len(listing)
    /\ \A k \in 1..Len(files) :
          stripANSI(files[k]) = stripANSI(listing[k].line)

\* C4 as stated: after the recoloring, every hidden entry that is a directory
\* is the hidden-directory color, its visible name and the reset code.
C4_HiddenDirWrapped ==
    \A k \in 1..Len(files) :
        (Recolored(k) /\ Hidden(k) /\ listing[k].isDir) =>
            files[k] = DotDirColor \o VisibleName(k) \o Reset

\* C5 as stated: a hidden entry that is not a directory and whose raw line
\* holds a control introducer is left as it was, and the hidden-file color
\* is applied only to a raw line without control codes.
C5_ColoredHiddenFileKept ==
    \A k \in 1..Len(files) :
        (Recolored(k) /\ Hidden(k) /\ ~listing[k].isDir) =>
            /\ ContainsIntroducer(listing[k].line) => files[k] = listing[k].line
            /\ files[k] = DotFileColor \o VisibleName(k) \o Reset =>
                  ~ContainsIntroducer(listing[k].line)

\* What the recoloring does with the answer of os.Stat: the entry just
\* recolored is wrapped as a hidden directory exactly when os.Stat reported a
\* directory; otherwise it is wrapped as a hidden file when its line holds
\* no control introducer, and left as it was when it holds one.
RecolorFollowsLookup ==
    (pc = "recolor" /\ i >= 1 /\ Hidden(i)) =>
        files[i] = IF stat = "dir"
                   THEN DotDirColor \o VisibleName(i) \o Reset
                   ELSE IF ContainsIntroducer(listing[i].line)
                        THEN listing[i].line
                        ELSE DotFileColor \o VisibleName(i) \o Reset

\* C6: a line is on standard output only after cmd.Wait() has reported
\* success; once it has reported a failure the program has exited with a
\* non-zero status and printed nothing.
C6_NoOutputUnlessLsSucceeded ==
    /\ out # <<>> => (lsWaited /\ lsStatus = 0)
    /\ (lsWaited /\ lsStatus # 0) =>
          (pc = "exit" /\ exitCode # ExitSuccess /\ out = <<>>)

\* C6 witness: ls printed entries and then failed; the program has exited.
C6_Witness ==
    /\ lsWaited
    /\ lsStatus # 0
    /\ Len(files) >= 1
    /\ pc = "exit"
    /\ out = <<>>

\* C7 as stated: when ls fails with status s, the program exits with s.
C7_ExitStatusPropagated ==
    (pc = "exit" /\ lsWaited /\ lsStatus # 0) => exitCode = lsStatus

\* C8: when ls succeeds with no entries, nothing is printed, the program
\* runs on until it exits, and it exits with success.
C8_EmptyListingPrintsNothing ==
    (lsWaited /\ lsStatus = 0 /\ Len(files) = 0) =>
        /\ out = <<>>
        /\ pc = "exit" => exitCode = ExitSuccess
        /\ pc # "exit" => ENABLED Next

\* C8 witness: ls succeeded with no entries, the terminal width was not
\* available, and main has returned.
C8_Witness ==
    /\ lsWaited
    /\ lsStatus = 0
    /\ Len(files) = 0
    /\ termWidth = FallbackWidth
    /\ pc = "exit"
    /\ exitCode = ExitSuccess
    /\ out = <<>>

====
